---- MODULE Spec2Model ----
(***************************************************************************)
(* Breate backend: the guarded mutations of the REST handlers              *)
(*   routers/projects.py      project lifecycle engine                     *)
(*   routers/collabcircle.py  collaboration ledger                         *)
(*   routers/profile.py       profile component                            *)
(* Every handler runs to completion as one step (one request, one session, *)
(* one commit).  The caller of a guarded handler is the user record the    *)
(* authentication gate resolved.                                           *)
(*                                                                         *)
(* Text is modelled as a sequence of one-character strings, a tag list as  *)
(* a sequence of texts, so that ",".join and str.split(",") are computed.  *)
(* An HTTPException detail is a sequence of pieces (an f-string's parts).  *)
(***************************************************************************)
EXTENDS Integers, Sequences, FiniteSets, TLC

\* ------------------------------------------------------------- bounds
MaxProjects == 2
MaxLinks == 4
MaxTags == 2
MaxTagLen == 1
MaxPayloadKeys == 2
MaxParticipants == 2
MaxDuplicates == 2
MaxSessions == 2

\* Python's None / SQL NULL, for string-valued and timestamp columns.
None == "None"

\* --------------------------------------------------------- the tables
VARIABLES
    users,            \* users table: id -> row
    projects,         \* projects table: id -> row (rows that exist)
    next_project_id,  \* the projects.id sequence
    submitted,        \* history: id -> the lists the create request carried
    collab_links,     \* collab_links table: a set of rows
    next_collab_id,   \* the collab_links.id sequence
    project_participants,  \* project_participants table: a set of rows
    next_participant_id,   \* the project_participants.id sequence
    reference,        \* archetypes, tiers and coalitions tables: sets of rows
    sessions,         \* requests in flight: slot -> what the handler holds
    response          \* the response to the last request

vars == <<users, projects, next_project_id, submitted, collab_links,
          next_collab_id, project_participants, next_participant_id, reference,
          sessions, response>>

\* ------------------------------------------------------------- users
ProfileFields == {"full_name", "bio", "preferred_themes", "portfolio_links",
                  "next_build", "affiliations"}

UserRow(id, email, username) ==
    [id |-> id, email |-> email, username |-> username, password |-> "hash",
     full_name |-> None, bio |-> None, preferred_themes |-> None,
     portfolio_links |-> None, next_build |-> None, affiliations |-> None,
     archetype_id |-> 1, tier_id |-> 1]

\* The population the ledger is explored from: three users with usernames
\* and one whose nullable username was never set.
Population ==
    [i \in 1..4 |->
        CASE i = 1 -> UserRow(1, "alice@x", "alice")
          [] i = 2 -> UserRow(2, "bob@x", "bob")
          [] i = 3 -> UserRow(3, "carol@x", "carol")
          [] OTHER -> UserRow(4, "dan@x", None)]

\* The population the projects and the profiles are explored from.
SmallPopulation ==
    [i \in 1..3 |->
        CASE i = 1 -> UserRow(1, "alice@x", "alice")
          [] i = 2 -> UserRow(2, "bob@x", "bob")
          [] OTHER -> UserRow(3, "dan@x", None)]

UserIds == DOMAIN users

\* Usernames a request can name: those of the population and one of no user.
RequestUsernames == {"alice", "bob", "carol", "ghost"}

\* db.query(models.User).filter(models.User.username == name).first():
\* a NULL username matches no string.
UsersByUsername(name) ==
    {i \in UserIds : users[i].username # None /\ users[i].username = name}

\* ------------------------------------------------------------- text
Chars == {"a", "b", ","}

RECURSIVE Texts(_)
Texts(n) ==
    IF n = 0 THEN {<<>>}
    ELSE LET shorter == Texts(n - 1)
         IN shorter \cup {Append(t, c) : t \in {s \in shorter : Len(s) = n - 1},
                                         c \in Chars}

RECURSIVE Lists(_, _)
Lists(S, n) ==
    IF n = 0 THEN {<<>>}
    ELSE LET shorter == Lists(S, n - 1)
         IN shorter \cup {Append(l, t) : l \in {s \in shorter : Len(s) = n - 1},
                                         t \in S}

TagLists == Lists(Texts(MaxTagLen), MaxTags)

HasComma(text) == \E i \in 1..Len(text) : text[i] = ","

\* ",".join(tags)
RECURSIVE Join(_)
Join(tags) ==
    IF Len(tags) = 0 THEN <<>>
    ELSE IF Len(tags) = 1 THEN tags[1]
    ELSE tags[1] \o <<",">> \o Join(Tail(tags))

\* text.split(","): always at least one piece; "".split(",") is [""].
RECURSIVE Split(_)
Split(text) ==
    IF ~HasComma(text) THEN <<text>>
    ELSE LET i == CHOOSE k \in 1..Len(text) :
                     text[k] = "," /\ \A j \in 1..(k - 1) : text[j] # ","
         IN <<SubSeq(text, 1, i - 1)>> \o Split(SubSeq(text, i + 1, Len(text)))

\* p.coalition_tags.split(",") if p.coalition_tags else []
SplitIfAny(text) == IF text # <<>> THEN Split(text) ELSE <<>>

\* An optional value, of a nullable column, an optional query parameter or
\* a call that may raise: the empty set when there is none, else the set
\* holding the value.
Absent == {}
Some(text) == {text}

\* ----------------------------------------------------------- sessions
\* Requests run in their own database session, one per worker of the pool.
\* A slot holds what a handler keeps between its query and its commit: the
\* request (op, caller, target, argument) and the status of the row it read.
SessionSlots == 1..MaxSessions

IdleSession ==
    [pc |-> "idle", op |-> None, caller |-> 0, target |-> 0,
     argument |-> None, seen |-> None]

\* ---------------------------------------------------------- responses
NoList == <<>>

Reply(op, caller, target, code, detail) ==
    [op |-> op, caller |-> caller, target |-> target, status_code |-> code,
     detail |-> detail, status |-> None, needed_archetypes |-> NoList,
     coalition_tags |-> NoList]

\* ProjectResponse(...) as the handlers build it from a row.
ProjectResponse(op, caller, id, code, row) ==
    [op |-> op, caller |-> caller, target |-> id, status_code |-> code,
     detail |-> <<>>, status |-> row.status,
     needed_archetypes |-> Split(row.needed_archetypes),
     coalition_tags |-> SplitIfAny(row.coalition_tags)]

\* ------------------------------------------------ project lifecycle
ProjectIds == 1..MaxProjects

\* models.ProjectStatus: its member names, which are also its values.
ProjectStatusMembers == {"open", "in_progress", "completed"}

\* The default of the projects.status column.
DefaultStatus == "open"

\* Status strings a PATCH can carry: the members and one that is none.
StatusStrings == ProjectStatusMembers \cup {"archived"}

VALID_STATUS_FLOW == [open |-> "in_progress", in_progress |-> "completed"]

\* VALID_STATUS_FLOW.get(current)
FlowGet(current) ==
    IF current \in DOMAIN VALID_STATUS_FLOW THEN VALID_STATUS_FLOW[current]
    ELSE None

\* Two slips of validate_status_transition: one lets a project skip to
\* completed, one lets a completed project reopen.
validate_status_transition_Skip(current, new) ==
    IF current = "completed"
        THEN <<"Completed projects cannot be updated">>
    ELSE IF new \notin {FlowGet(current), "completed"}
        THEN <<"Invalid status transition: ", current, " -> ", new>>
    ELSE <<>>

validate_status_transition_Reopen(current, new) ==
    IF new # (IF current = "completed" THEN "open" ELSE FlowGet(current))
        THEN <<"Invalid status transition: ", current, " -> ", new>>
    ELSE <<>>

\* A slip of validate_status_transition: the flow is looked up before the
\* terminal status is tested.
validate_status_transition_FlowFirst(current, new) ==
    IF new # FlowGet(current)
        THEN <<"Invalid status transition: ", current, " -> ", new>>
    ELSE IF current = "completed"
        THEN <<"Completed projects cannot be updated">>
    ELSE <<>>

\* The HTTPException validate_status_transition raises, or <<>> for none.
validate_status_transition(current, new) ==
    IF current = "completed"
        THEN <<"Completed projects cannot be updated">>
    ELSE IF new # FlowGet(current)
        THEN <<"Invalid status transition: ", current, " -> ", new>>
    ELSE <<>>

\* The guards of the two mutating handlers, each after the slip that drops it.
UpdateForbidden_Never(project, current_user) == FALSE
\* project.poster_id != current_user.id, in update_project_status
UpdateForbidden(project, current_user) == project.poster_id # current_user.id

InvalidStatus_Never(new_status) == FALSE
\* new_status not in models.ProjectStatus.__members__
InvalidStatus(new_status) == new_status \notin ProjectStatusMembers

DeleteForbidden_Never(project, current_user) == FALSE
\* project.poster_id != current_user.id, in delete_project
DeleteForbidden(project, current_user) == project.poster_id # current_user.id

NotDeletable_Never(project) == FALSE
\* project.status != models.ProjectStatus.open
NotDeletable(project) == project.status # "open"

ProjectsUnchanged == UNCHANGED <<projects, next_project_id, submitted>>
OthersUnchangedByProjects ==
    UNCHANGED <<users, collab_links, next_collab_id, next_participant_id,
                reference, sessions>>

\* A slip of create_project: the row is stored without its poster.
NewProject_NoPoster(current_user, needed_archetypes, coalition_tags, region) ==
    [poster_id |-> 0,
     region |-> region,
     status |-> DefaultStatus,
     completed_at |-> None,
     needed_archetypes |-> Join(needed_archetypes),
     coalition_tags |-> Join(coalition_tags)]

\* models.Project(...) as create_project fills it; status and completed_at
\* take their column defaults.
NewProject(current_user, needed_archetypes, coalition_tags, region) ==
    [poster_id |-> current_user.id,
     region |-> region,
     status |-> DefaultStatus,
     completed_at |-> None,
     needed_archetypes |-> Join(needed_archetypes),
     coalition_tags |-> Join(coalition_tags)]

\* A slip of update_project_status: the timestamp is set on every success.
WithStatus_AlwaysStamped(project, new_status) ==
    [project EXCEPT !.status = new_status, !.completed_at = "utcnow"]

\* project.status = ProjectStatus[new_status]; completed_at = utcnow() when
\* the new status is completed.
WithStatus(project, new_status) ==
    [project EXCEPT !.status = new_status,
                    !.completed_at =
                        IF new_status = "completed" THEN "utcnow" ELSE @]

create_project(caller, needed_archetypes, coalition_tags, region) ==
    /\ next_project_id <= MaxProjects
    /\ LET id == next_project_id
           row == NewProject(users[caller], needed_archetypes, coalition_tags,
                             region)
       IN /\ projects' = [i \in DOMAIN projects \cup {id} |->
                             IF i = id THEN row ELSE projects[i]]
          /\ submitted' = [i \in DOMAIN submitted \cup {id} |->
                             IF i = id
                             THEN [needed_archetypes |-> needed_archetypes,
                                   coalition_tags |-> coalition_tags]
                             ELSE submitted[i]]
          /\ next_project_id' = id + 1
          /\ response' = ProjectResponse("create_project", caller, id, 201, row)
    /\ OthersUnchangedByProjects
    /\ UNCHANGED project_participants

get_project(project_id) ==
    /\ IF project_id \notin DOMAIN projects
       THEN response' = Reply("get_project", 0, project_id, 404,
                              <<"Project not found">>)
       ELSE response' = ProjectResponse("get_project", 0, project_id, 200,
                                        projects[project_id])
    /\ ProjectsUnchanged
    /\ OthersUnchangedByProjects
    /\ UNCHANGED project_participants

update_project_status(caller, project_id, new_status) ==
    /\ IF project_id \notin DOMAIN projects
       THEN /\ response' = Reply("update_project_status", caller, project_id,
                                 404, <<"Project not found">>)
            /\ UNCHANGED projects
       ELSE IF UpdateForbidden(projects[project_id], users[caller])
       THEN /\ response' = Reply("update_project_status", caller, project_id,
                                 403, <<"You are not allowed to update this project">>)
            /\ UNCHANGED projects
       ELSE IF InvalidStatus(new_status)
       THEN /\ response' = Reply("update_project_status", caller, project_id,
                                 400, <<"Invalid project status">>)
            /\ UNCHANGED projects
       ELSE LET current_status == projects[project_id].status
                raised == validate_status_transition(current_status, new_status)
                row == WithStatus(projects[project_id], new_status)
            IN IF raised # <<>>
               THEN /\ response' = Reply("update_project_status", caller,
                                         project_id, 400, raised)
                    /\ UNCHANGED projects
               ELSE /\ projects' = [projects EXCEPT ![project_id] = row]
                    /\ response' = ProjectResponse("update_project_status",
                                                   caller, project_id, 200, row)
    /\ UNCHANGED <<next_project_id, submitted>>
    /\ OthersUnchangedByProjects
    /\ UNCHANGED project_participants

\* A slip of the schema: deleting a project leaves its participants behind.
WithoutParticipantsOf_NoCascade(project_id) == project_participants

\* cascade="all, delete-orphan" on Project.participants, ondelete="CASCADE"
\* on project_participants.project_id: the rows of the project go with it.
WithoutParticipantsOf(project_id) ==
    {pp \in project_participants : pp.project_id # project_id}

delete_project(caller, project_id) ==
    /\ IF project_id \notin DOMAIN projects
       THEN /\ response' = Reply("delete_project", caller, project_id, 404,
                                 <<"Project not found">>)
            /\ UNCHANGED <<projects, project_participants>>
       ELSE IF DeleteForbidden(projects[project_id], users[caller])
       THEN /\ response' = Reply("delete_project", caller, project_id, 403,
                                 <<"You are not allowed to delete this project">>)
            /\ UNCHANGED <<projects, project_participants>>
       ELSE IF NotDeletable(projects[project_id])
       THEN /\ response' = Reply("delete_project", caller, project_id, 400,
                                 <<"Only open projects can be deleted">>)
            /\ UNCHANGED <<projects, project_participants>>
       ELSE /\ projects' = [i \in DOMAIN projects \ {project_id} |-> projects[i]]
            /\ project_participants' = WithoutParticipantsOf(project_id)
            /\ response' = Reply("delete_project", caller, project_id, 200,
                                 <<"Project deleted successfully">>)
    /\ UNCHANGED <<next_project_id, submitted>>
    /\ OthersUnchangedByProjects

\* ------------------------------------- project lifecycle, in sessions
\* The handlers of update_project_status and delete_project as the
\* database sees them: the query with the checks made on the row it
\* returned, then the flush and commit of the pending change.  The
\* UPDATE and DELETE statements name the row by its id alone.
SessionsFrame ==
    UNCHANGED <<users, collab_links, next_collab_id, next_participant_id,
                reference, next_project_id, submitted>>

\* update_project_status up to the call of validate_status_transition.
update_project_status_read(r, caller, project_id, new_status) ==
    /\ sessions[r].pc = "idle"
    /\ LET Refuse(code, detail) ==
               /\ response' = Reply("update_project_status", caller, project_id,
                                    code, detail)
               /\ UNCHANGED sessions
       IN IF project_id \notin DOMAIN projects
          THEN Refuse(404, <<"Project not found">>)
          ELSE IF UpdateForbidden(projects[project_id], users[caller])
          THEN Refuse(403, <<"You are not allowed to update this project">>)
          ELSE IF InvalidStatus(new_status)
          THEN Refuse(400, <<"Invalid project status">>)
          ELSE LET current_status == projects[project_id].status
                   raised == validate_status_transition(current_status,
                                                        new_status)
               IN IF raised # <<>>
                  THEN Refuse(400, raised)
                  ELSE /\ sessions' = [sessions EXCEPT ![r] =
                              [pc |-> "validated",
                               op |-> "update_project_status",
                               caller |-> caller, target |-> project_id,
                               argument |-> new_status,
                               seen |-> current_status]]
                       /\ UNCHANGED response
    /\ UNCHANGED <<projects, project_participants>>
    /\ SessionsFrame

\* project.status = ...; db.commit(); db.refresh(project): the UPDATE sets
\* the columns the handler assigned on the row as it is now stored.  When
\* the row is no longer there the flush matches no row and fails.
update_project_status_commit(r) ==
    /\ sessions[r].pc = "validated"
    /\ sessions[r].op = "update_project_status"
    /\ LET project_id == sessions[r].target
           caller == sessions[r].caller
       IN IF project_id \notin DOMAIN projects
          THEN /\ response' = Reply("update_project_status", caller,
                                    project_id, 500, <<"Internal Server Error">>)
               /\ UNCHANGED projects
          ELSE LET row == WithStatus(projects[project_id], sessions[r].argument)
               IN /\ projects' = [projects EXCEPT ![project_id] = row]
                  /\ response' = ProjectResponse("update_project_status",
                                                 caller, project_id, 200, row)
    /\ sessions' = [sessions EXCEPT ![r] = IdleSession]
    /\ UNCHANGED project_participants
    /\ SessionsFrame

\* delete_project up to db.delete(project).
delete_project_read(r, caller, project_id) ==
    /\ sessions[r].pc = "idle"
    /\ LET Refuse(code, detail) ==
               /\ response' = Reply("delete_project", caller, project_id,
                                    code, detail)
               /\ UNCHANGED sessions
       IN IF project_id \notin DOMAIN projects
          THEN Refuse(404, <<"Project not found">>)
          ELSE IF DeleteForbidden(projects[project_id], users[caller])
          THEN Refuse(403, <<"You are not allowed to delete this project">>)
          ELSE IF NotDeletable(projects[project_id])
          THEN Refuse(400, <<"Only open projects can be deleted">>)
          ELSE /\ sessions' = [sessions EXCEPT ![r] =
                      [pc |-> "validated", op |-> "delete_project",
                       caller |-> caller, target |-> project_id,
                       argument |-> None,
                       seen |-> projects[project_id].status]]
               /\ UNCHANGED response
    /\ UNCHANGED <<projects, project_participants>>
    /\ SessionsFrame

\* db.delete(project); db.commit(): the DELETE removes the row of that id,
\* whatever its status is by now, and its participants with it.
delete_project_commit(r) ==
    /\ sessions[r].pc = "validated"
    /\ sessions[r].op = "delete_project"
    /\ LET project_id == sessions[r].target
       IN /\ projects' = [i \in DOMAIN projects \ {project_id} |-> projects[i]]
          /\ project_participants' = WithoutParticipantsOf(project_id)
          /\ response' = Reply("delete_project", sessions[r].caller, project_id,
                               200, <<"Project deleted successfully">>)
    /\ sessions' = [sessions EXCEPT ![r] = IdleSession]
    /\ SessionsFrame

\* ------------------------------------------------------------ discover
\* Lower case of a text, as ILIKE folds both of its sides.
Lower(text) ==
    [i \in 1..Len(text) |->
        IF text[i] = "A" THEN "a" ELSE IF text[i] = "B" THEN "b" ELSE text[i]]

\* The database's LIKE: % matches any run of characters, _ any one
\* character, and a backslash makes the character after it literal.  A
\* pattern ending in a lone backslash is an error there; the patterns built
\* here always end in %.
RECURSIVE Like(_, _)
Like(text, pattern) ==
    IF pattern = <<>> THEN text = <<>>
    ELSE IF Head(pattern) = "%"
    THEN \/ Like(text, Tail(pattern))
         \/ text # <<>> /\ Like(Tail(text), pattern)
    ELSE IF Head(pattern) = "_"
    THEN text # <<>> /\ Like(Tail(text), Tail(pattern))
    ELSE IF Head(pattern) = "\\"
    THEN /\ Len(pattern) >= 2
         /\ text # <<>>
         /\ Head(text) = pattern[2]
         /\ Like(Tail(text), Tail(Tail(pattern)))
    ELSE /\ text # <<>>
         /\ Head(text) = Head(pattern)
         /\ Like(Tail(text), Tail(pattern))

\* column.ilike(f"%{value}%"): NULL columns match nothing.
ColumnILike(column, value) ==
    \E text \in column :
        Like(Lower(text), Lower(<<"%">> \o value \o <<"%">>))

\* `if region:` and its likes: the parameter is given and not empty.
Supplied(parameter) == parameter # Absent /\ parameter # Some(<<>>)

\* One optional filter of discover_projects on one column.
Passes(column, parameter) ==
    Supplied(parameter) => \E value \in parameter : ColumnILike(column, value)

\* The ids of the rows the query of discover_projects matches.
Discovered(archetype, region, coalition) ==
    {id \in DOMAIN projects :
        /\ projects[id].status = "open"
        /\ Passes(projects[id].region, region)
        /\ Passes(Some(projects[id].needed_archetypes), archetype)
        /\ Passes(Some(projects[id].coalition_tags), coalition)}

\* .order_by(created_at.desc()): the newest project, the highest id, first.
RECURSIVE NewestIdFirst(_)
NewestIdFirst(ids) ==
    IF ids = {} THEN <<>>
    ELSE LET newest == CHOOSE i \in ids : \A j \in ids : j <= i
         IN <<newest>> \o NewestIdFirst(ids \ {newest})

\* One item of the list discover_projects returns.
DiscoverItem(id) ==
    [id |-> id,
     status |-> projects[id].status,
     needed_archetypes |-> Split(projects[id].needed_archetypes),
     region |-> projects[id].region,
     coalition_tags |-> SplitIfAny(projects[id].coalition_tags),
     poster_id |-> projects[id].poster_id]

discover_projects(archetype, region, coalition) ==
    /\ LET ids == NewestIdFirst(Discovered(archetype, region, coalition))
       IN response' = [op |-> "discover_projects", caller |-> 0, target |-> 0,
                       status_code |-> 200, detail |-> <<>>,
                       archetype |-> archetype, region |-> region,
                       coalition |-> coalition,
                       projects |-> [i \in 1..Len(ids) |-> DiscoverItem(ids[i])]]
    /\ ProjectsUnchanged
    /\ OthersUnchangedByProjects
    /\ UNCHANGED project_participants

\* -------------------------------------------------------- participants
\* A user joins a project: a project_participants row under its two foreign
\* keys, with the column default status.
add_participant(user_id, project_id) ==
    /\ next_participant_id <= MaxParticipants
    /\ user_id \in {users[i].id : i \in UserIds}
    /\ project_id \in DOMAIN projects
    /\ project_participants' = project_participants \cup
           {[id |-> next_participant_id, project_id |-> project_id,
             user_id |-> user_id, status |-> "pending"]}
    /\ next_participant_id' = next_participant_id + 1
    /\ response' = Reply("add_participant", user_id, project_id, 201, <<>>)
    /\ ProjectsUnchanged
    /\ UNCHANGED <<users, collab_links, next_collab_id, reference, sessions>>

\* ------------------------------------------------ collaboration ledger
ProjectNames == {None, "proj"}

\* A slip of the duplicate check: only the caller's own direction is looked up.
ExistingLinks_OneDirection(current_user, collaborator) ==
    {l \in collab_links :
        /\ l.user_a_username = current_user.username
        /\ l.user_b_username = collaborator.username}

\* The rows the duplicate query of create_collaboration matches.
ExistingLinks(current_user, collaborator) ==
    {l \in collab_links :
        \/ /\ l.user_a_username = current_user.username
           /\ l.user_b_username = collaborator.username
        \/ /\ l.user_a_username = collaborator.username
           /\ l.user_b_username = current_user.username}

\* A slip of create_collaboration: the two sides are stored the wrong way round.
NewCollabLink_Swapped(id, current_user, collaborator, project_name) ==
    [id |-> id,
     user_a_username |-> collaborator.username,
     user_b_username |-> current_user.username,
     project_name |-> project_name,
     status |-> "pending",
     user_a_confirmed |-> 1,
     user_b_confirmed |-> 0,
     verified_at |-> None,
     created_at |-> id]

\* models.CollabLink(...) as create_collaboration fills it.  created_at is
\* the server's now() at the insert: the rows' timestamps grow with their ids.
NewCollabLink(id, current_user, collaborator, project_name) ==
    [id |-> id,
     user_a_username |-> current_user.username,
     user_b_username |-> collaborator.username,
     project_name |-> project_name,
     status |-> "pending",
     user_a_confirmed |-> 1,
     user_b_confirmed |-> 0,
     verified_at |-> None,
     created_at |-> id]

\* A slip of the self check: it never fires.
NamesSelf_Never(collaborator, current_user) == FALSE

\* collaborator.username == current_user.username
NamesSelf(collaborator, current_user) ==
    collaborator.username = current_user.username

\* A slip of the listing: only the links the caller created are returned.
MyLinks_OnlyCreated(current_user) ==
    {l \in collab_links : l.user_a_username = current_user.username}

\* The rows the query of get_my_collaborations matches.
MyLinks(current_user) ==
    {l \in collab_links :
        \/ l.user_a_username = current_user.username
        \/ l.user_b_username = current_user.username}

\* .order_by(created_at.desc()).all()
RECURSIVE NewestFirst(_)
NewestFirst(rows) ==
    IF rows = {} THEN <<>>
    ELSE LET newest == CHOOSE r \in rows :
                           \A o \in rows : o.created_at <= r.created_at
         IN <<newest>> \o NewestFirst(rows \ {newest})

OthersUnchangedByCollab ==
    UNCHANGED <<users, projects, next_project_id, submitted,
                project_participants, next_participant_id, reference,
                sessions>>

OthersUnchangedByCollabSessions ==
    UNCHANGED <<users, projects, next_project_id, submitted,
                project_participants, next_participant_id, reference>>

create_collaboration(caller, collaborator_username, project_name) ==
    /\ next_collab_id <= MaxLinks
    /\ LET current_user == users[caller]
           found == UsersByUsername(collaborator_username)
           Refuse(code, detail) ==
               /\ response' = Reply("create_collaboration", caller,
                                    collaborator_username, code, detail)
               /\ UNCHANGED <<collab_links, next_collab_id>>
       IN IF found = {}
          THEN Refuse(404, <<"User not found">>)
          ELSE LET collaborator == users[CHOOSE i \in found : TRUE]
               IN IF NamesSelf(collaborator, current_user)
                  THEN Refuse(400, <<"Cannot collaborate with yourself">>)
                  ELSE IF ExistingLinks(current_user, collaborator) # {}
                  THEN Refuse(400, <<"Collaboration already exists">>)
                  \* user_a_username is NOT NULL: the commit of a row for a
                  \* caller without username fails, nothing is stored.
                  ELSE IF current_user.username = None
                  THEN Refuse(500, <<"Internal Server Error">>)
                  ELSE /\ collab_links' = collab_links \cup
                              {NewCollabLink(next_collab_id, current_user,
                                             collaborator, project_name)}
                       /\ next_collab_id' = next_collab_id + 1
                       /\ response' = Reply("create_collaboration", caller,
                                            collaborator_username, 201, <<>>)
    /\ OthersUnchangedByCollab

get_my_collaborations(caller) ==
    /\ response' = [op |-> "get_my_collaborations", caller |-> caller,
                    target |-> 0, status_code |-> 200, detail |-> <<>>,
                    links |-> NewestFirst(MyLinks(users[caller]))]
    /\ UNCHANGED <<collab_links, next_collab_id>>
    /\ OthersUnchangedByCollab

\* ---------------------------------- collaboration ledger, in sessions
\* create_collaboration up to the test of `existing`: the lookup of the
\* collaborator, the self check and the duplicate query.
create_collaboration_check(r, caller, collaborator_username, project_name) ==
    /\ sessions[r].pc = "idle"
    /\ LET current_user == users[caller]
           found == UsersByUsername(collaborator_username)
           Refuse(code, detail) ==
               /\ response' = Reply("create_collaboration", caller,
                                    collaborator_username, code, detail)
               /\ UNCHANGED sessions
       IN IF found = {}
          THEN Refuse(404, <<"User not found">>)
          ELSE LET collaborator == users[CHOOSE i \in found : TRUE]
               IN IF NamesSelf(collaborator, current_user)
                  THEN Refuse(400, <<"Cannot collaborate with yourself">>)
                  ELSE IF ExistingLinks(current_user, collaborator) # {}
                  THEN Refuse(400, <<"Collaboration already exists">>)
                  ELSE /\ sessions' = [sessions EXCEPT ![r] =
                              [pc |-> "validated",
                               op |-> "create_collaboration",
                               caller |-> caller,
                               target |-> collaborator_username,
                               argument |-> project_name,
                               seen |-> None]]
                       /\ UNCHANGED response
    /\ UNCHANGED <<collab_links, next_collab_id>>
    /\ OthersUnchangedByCollabSessions

\* db.add(collab); db.commit(): the INSERT.  The table has no constraint
\* over the two usernames besides NOT NULL and the foreign keys.
create_collaboration_commit(r) ==
    /\ sessions[r].pc = "validated"
    /\ sessions[r].op = "create_collaboration"
    /\ next_collab_id <= MaxLinks
    /\ LET caller == sessions[r].caller
           current_user == users[caller]
           collaborator ==
               users[CHOOSE i \in UsersByUsername(sessions[r].target) : TRUE]
       IN IF current_user.username = None
          THEN /\ response' = Reply("create_collaboration", caller,
                                    sessions[r].target, 500,
                                    <<"Internal Server Error">>)
               /\ UNCHANGED <<collab_links, next_collab_id>>
          ELSE /\ collab_links' = collab_links \cup
                      {NewCollabLink(next_collab_id, current_user, collaborator,
                                     sessions[r].argument)}
               /\ next_collab_id' = next_collab_id + 1
               /\ response' = Reply("create_collaboration", caller,
                                    sessions[r].target, 201, <<>>)
    /\ sessions' = [sessions EXCEPT ![r] = IdleSession]
    /\ OthersUnchangedByCollabSessions

\* ------------------------------------------------------------ profile
\* Keys a PUT /profile payload can carry: the allow-list and one outside it.
PayloadKeys == ProfileFields \cup {"username"}

\* The payloads: dicts of at most MaxPayloadKeys keys.
Payloads ==
    UNION {[ks -> {"new"}] :
              ks \in {k \in SUBSET PayloadKeys : Cardinality(k) <= MaxPayloadKeys}}

\* Keys of users columns that the allow-list leaves out.
ProtectedKeys == {"email", "username", "password", "archetype_id", "tier_id"}

\* The payloads an owner's edits are explored with: any columns, allowed or not.
OwnerPayloads ==
    {[k \in ks |-> IF k \in {"archetype_id", "tier_id"} THEN 2 ELSE "new"] :
        ks \in {k \in SUBSET (ProfileFields \cup ProtectedKeys) :
                   Cardinality(k) <= MaxPayloadKeys}}

\* A slip of the owner check: any authenticated caller passes.
ProfileForbidden_Never(current_user, username) == FALSE

\* current_user.username != username
ProfileForbidden(current_user, username) == current_user.username # username

\* A slip of the update: every column named in the payload is written.
ApplyAllowed_AnyColumn(user, data) ==
    [f \in DOMAIN user |-> IF f \in DOMAIN data THEN data[f] ELSE user[f]]

\* for field in allowed_fields: if field in data: setattr(user, field, data[field])
ApplyAllowed(user, data) ==
    [f \in DOMAIN user |->
        IF f \in ProfileFields /\ f \in DOMAIN data THEN data[f] ELSE user[f]]

OthersUnchangedByProfile ==
    UNCHANGED <<projects, next_project_id, submitted, collab_links,
                next_collab_id, project_participants, next_participant_id,
                reference, sessions>>

update_profile(caller, username, data) ==
    /\ LET current_user == users[caller]
       IN IF ProfileForbidden(current_user, username)
          THEN /\ response' = Reply("update_profile", caller, username, 403,
                                    <<"You are not allowed to edit this profile">>)
               /\ UNCHANGED users
          \* the row is looked up by current_user.id, which the gate resolved
          ELSE IF current_user.id \notin {users[i].id : i \in UserIds}
          THEN /\ response' = Reply("update_profile", caller, username, 404,
                                    <<"User not found">>)
               /\ UNCHANGED users
          ELSE /\ users' = [users EXCEPT ![caller] = ApplyAllowed(@, data)]
               /\ response' = Reply("update_profile", caller, username, 200,
                                    <<"Profile updated successfully">>)
    /\ OthersUnchangedByProfile

\* ------------------------------------------------- authentication gate
\* Bearer tokens: whether the signature and the expiry verify, and the
\* claims of the payload.  The deployment whose login puts the email in sub
\* and the one that puts the user id there issue different subjects.
TokenTypes == {"access", "refresh", ""}

ClaimsOf(sub, type) ==
    [k \in {c \in {"sub"} : sub # Absent} \cup {c \in {"type"} : type # Absent}
        |-> IF k = "sub" THEN CHOOSE x \in sub : TRUE
                         ELSE CHOOSE x \in type : TRUE]

\* Tokens the server signed, with any claims, and forged or expired ones
\* that claim to be access tokens of each subject.
TokensOver(subjects) ==
    {[verifies |-> TRUE, claims |-> ClaimsOf(sub, type)] :
        sub \in {Absent} \cup {Some(x) : x \in subjects},
        type \in {Absent} \cup {Some(x) : x \in TokenTypes}}
    \cup {[verifies |-> FALSE, claims |-> ClaimsOf(Some(x), Some("access"))] :
            x \in subjects}

EmailTokens == TokensOver({"alice@x", "bob@x", "ghost@x"})
IdTokens == TokensOver({"1", "9"})

\* payload.get(key)
Get(payload, key) == IF key \in DOMAIN payload THEN payload[key] ELSE None

\* Decoding and verification of the token: the payload, or nothing when the
\* token does not decode or verify.
verify_access_token(token) ==
    IF token.verifies THEN Some(token.claims) ELSE Absent

\* jwt.decode(token, SECRET_KEY, algorithms=[ALGORITHM])
jwt_decode(token) ==
    IF token.verifies THEN Some(token.claims) ELSE Absent

\* A slip of the gate: the type claim is not looked at.
TypeRejected_Never(payload) == FALSE

\* if payload.get("type") and payload.get("type") != "access"
TypeRejected(payload) ==
    /\ Get(payload, "type") \notin {None, ""}
    /\ Get(payload, "type") # "access"

\* dependencies/auth_guard.py: the users the token resolves to, none when
\* the gate raises 401.
get_current_user(token) ==
    {i \in UserIds :
        \E payload \in verify_access_token(token) :
            /\ ~TypeRejected(payload)
            /\ Get(payload, "sub") # None
            /\ users[i].email = Get(payload, "sub")}

\* dependencies/auth.py: the subject is the user's id.
get_current_user_by_id(token) ==
    {i \in UserIds :
        \E payload \in jwt_decode(token) :
            /\ Get(payload, "sub") # None
            /\ ToString(users[i].id) = Get(payload, "sub")}

StoresUnchanged ==
    UNCHANGED <<users, projects, next_project_id, submitted, collab_links,
                next_collab_id, project_participants, next_participant_id,
                reference, sessions>>

\* raise credentials_exception: the handler is not entered.
Unauthorized(detail) ==
    /\ response' = Reply("get_current_user", 0, 0, 401, <<detail>>)
    /\ StoresUnchanged

\* ---------------------------------------------------- reference data
\* The rows seed_reference_data inserts, without their ids.
SeedArchetypes ==
    <<[name |-> "Creator",
       description |-> "Visionary builders who bring ideas to life."],
      [name |-> "Creative",
       description |-> "Expressive individuals skilled in storytelling and design."],
      [name |-> "Innovator",
       description |-> "Thinkers who challenge norms and create new approaches."],
      [name |-> "Systems Thinker",
       description |-> "Analytical minds who design scalable systems."]>>

SeedTiers ==
    <<[name |-> "Base", level |-> 1,
       description |-> "Entry-level creators starting out."],
      [name |-> "Standard", level |-> 2,
       description |-> "Intermediate users gaining experience."],
      [name |-> "Professional", level |-> 3,
       description |-> "Experts with consistent contributions."]>>

SeedCoalitions ==
    <<[name |-> "University of Ghana",
       description |-> "Academic creative ecosystem",
       focus |-> "Education", location |-> "Ghana"],
      [name |-> "Tech for Good",
       description |-> "Builders using tech for social impact",
       focus |-> "Innovation", location |-> "Africa"]>>

\* The next value of a table's id sequence.
NextRowId(rows) ==
    IF rows = {} THEN 1
    ELSE 1 + CHOOSE m \in {r.id : r \in rows} : \A r \in rows : r.id <= m

\* A slip of the seeding: the rows are added whether or not the name is there.
RECURSIVE SeedTable_Always(_, _, _)
SeedTable_Always(rows, seeds, i) ==
    IF i > Len(seeds) THEN rows
    ELSE SeedTable_Always(rows \cup {[id |-> NextRowId(rows)] @@ seeds[i]},
                          seeds, i + 1)

\* for ... in seeds: if not query.filter_by(name=name).first(): db.add(...)
RECURSIVE SeedTable(_, _, _)
SeedTable(rows, seeds, i) ==
    IF i > Len(seeds) THEN rows
    ELSE LET present == \E r \in rows : r.name = seeds[i].name
             after == IF present THEN rows
                      ELSE rows \cup {[id |-> NextRowId(rows)] @@ seeds[i]}
         IN SeedTable(after, seeds, i + 1)

Seeded(tables) ==
    [archetypes |-> SeedTable(tables.archetypes, SeedArchetypes, 1),
     tiers |-> SeedTable(tables.tiers, SeedTiers, 1),
     coalitions |-> SeedTable(tables.coalitions, SeedCoalitions, 1)]

\* The tables as create_all leaves them.
NoReference == [archetypes |-> {}, tiers |-> {}, coalitions |-> {}]

OthersUnchangedBySeed ==
    UNCHANGED <<users, projects, next_project_id, submitted, collab_links,
                next_collab_id, project_participants, next_participant_id,
                sessions>>

\* The startup hook: the three loops, then one commit.
seed_reference_data ==
    /\ reference' = Seeded(reference)
    /\ response' = Reply("seed_reference_data", 0, 0, 0, <<>>)
    /\ OthersUnchangedBySeed

\* Rows a table holds before a start of the process: for the i-th seeded
\* name copies[i] rows, entered by other hands than the seeding.
StartingRows(seeds, copies) ==
    UNION {{[id |-> (i - 1) * MaxDuplicates + c] @@
                [seeds[i] EXCEPT !.description = "custom"] :
               c \in 1..copies[i]} : i \in 1..Len(seeds)}

\* name = Column(String(100), unique=True): at most one row per name.
UniqueNameTables(seeds) ==
    {StartingRows(seeds, copies) : copies \in [1..Len(seeds) -> 0..1]}

\* name = Column(String, nullable=False): any number of rows per name.
AnyNameTables(seeds) ==
    {StartingRows(seeds, copies) :
        copies \in [1..Len(seeds) -> 0..MaxDuplicates]}

\* ------------------------------------------------------ specifications
EmptyTables ==
    /\ projects = <<>>
    /\ next_project_id = 1
    /\ submitted = <<>>
    /\ collab_links = {}
    /\ next_collab_id = 1
    /\ project_participants = {}
    /\ next_participant_id = 1
    /\ sessions = [r \in SessionSlots |-> IdleSession]
    /\ response = Reply("startup", 0, 0, 0, <<>>)

\* A first start: create_all, then the seeding of the empty tables.
EmptyStore ==
    /\ EmptyTables
    /\ reference = Seeded(NoReference)

Init ==
    /\ users = SmallPopulation
    /\ EmptyStore

\* The requests of the lifecycle engine carry one fixed pair of tag lists.
OneTag == << <<"a">> >>

Next ==
    \/ \E caller \in UserIds : create_project(caller, OneTag, OneTag, Absent)
    \/ \E project_id \in ProjectIds : get_project(project_id)
    \/ \E caller \in UserIds, project_id \in ProjectIds, s \in StatusStrings :
           update_project_status(caller, project_id, s)
    \/ \E caller \in UserIds, project_id \in ProjectIds :
           delete_project(caller, project_id)

Spec == Init /\ [][Next]_vars

\* Projects with participants: created, joined, started and deleted.
NextParticipants ==
    \/ \E caller \in {i \in UserIds : users[i].username = "alice"} :
           create_project(caller, OneTag, OneTag, Absent)
    \/ \E user_id \in {users[i].id : i \in UserIds},
          project_id \in ProjectIds :
           add_participant(user_id, project_id)
    \/ \E caller \in {i \in UserIds : users[i].username = "alice"},
          project_id \in ProjectIds :
           update_project_status(caller, project_id, "in_progress")
    \/ \E caller \in {i \in UserIds : users[i].username = "alice"},
          project_id \in ProjectIds :
           delete_project(caller, project_id)

SpecParticipants == Init /\ [][NextParticipants]_vars

\* Starts of the process over a store that already holds reference rows.
InitSeed ==
    /\ users = SmallPopulation
    /\ EmptyTables
    /\ reference \in [archetypes : UniqueNameTables(SeedArchetypes),
                       tiers : UniqueNameTables(SeedTiers),
                       coalitions : AnyNameTables(SeedCoalitions)]

NextSeed == seed_reference_data

SpecSeed == InitSeed /\ [][NextSeed]_vars

\* Discovery over projects of one poster: what the create requests carry
\* (needed_archetypes, coalition_tags, region) and what the searches ask.
DiscoverInputs ==
    {<< << <<"a", "\\", "b">> >>, <<>>, Absent >>,
     << << <<"A">>, <<"b">> >>, << <<"a">> >>, Some(<<"b">>) >>,
     << << <<"b">> >>, << <<"\\">> >>, Some(<<"A", "\\">>) >>}

DiscoverFilters == {Absent, Some(<<"a">>), Some(<<"\\">>)}

NextDiscover ==
    \/ \E caller \in {i \in UserIds : users[i].username = "alice"},
          input \in DiscoverInputs :
           create_project(caller, input[1], input[2], input[3])
    \/ \E caller \in {i \in UserIds : users[i].username = "alice"},
          project_id \in ProjectIds :
           update_project_status(caller, project_id, "in_progress")
    \/ \E caller \in {i \in UserIds : users[i].username = "alice"},
          project_id \in ProjectIds :
           delete_project(caller, project_id)
    \/ \E archetype \in DiscoverFilters, region \in DiscoverFilters,
          coalition \in DiscoverFilters :
           discover_projects(archetype, region, coalition)

SpecDiscover == Init /\ [][NextDiscover]_vars

\* Requests to the guarded endpoints of the projects router.
ProjectRequest(caller) ==
    \/ create_project(caller, OneTag, OneTag, Absent)
    \/ \E project_id \in ProjectIds :
           update_project_status(caller, project_id, "in_progress")
    \/ \E project_id \in ProjectIds : delete_project(caller, project_id)

\* The same requests by bearer token: current_user = Depends(get_current_user)
\* raises 401 before the handler, or hands it the user.
GuardedRequest(token) ==
    IF get_current_user(token) = {}
    THEN Unauthorized("Could not validate credentials")
    ELSE \E caller \in get_current_user(token) : ProjectRequest(caller)

GuardedRequestById(token) ==
    IF get_current_user_by_id(token) = {}
    THEN Unauthorized("Invalid or expired token")
    ELSE \E caller \in get_current_user_by_id(token) : ProjectRequest(caller)

NextAuth ==
    \/ \E token \in EmailTokens : GuardedRequest(token)
    \/ \E token \in IdTokens : GuardedRequestById(token)

SpecAuth == Init /\ [][NextAuth]_vars

\* The owner's status updates and deletions, interleaved.
NextSessions ==
    \/ \E caller \in {i \in UserIds : users[i].username = "alice"} :
           create_project(caller, OneTag, OneTag, Absent)
    \/ \E r \in SessionSlots,
          caller \in {i \in UserIds : users[i].username = "alice"},
          project_id \in ProjectIds,
          new_status \in {"in_progress", "completed"} :
           update_project_status_read(r, caller, project_id, new_status)
    \/ \E r \in SessionSlots : update_project_status_commit(r)
    \/ \E r \in SessionSlots,
          caller \in {i \in UserIds : users[i].username = "alice"},
          project_id \in ProjectIds :
           delete_project_read(r, caller, project_id)
    \/ \E r \in SessionSlots : delete_project_commit(r)

SpecSessions == Init /\ [][NextSessions]_vars

\* Creations of collaboration links, interleaved.
NextCollabSessions ==
    \/ \E r \in SessionSlots, caller \in UserIds,
          collaborator_username \in {"alice", "bob", "ghost"} :
           create_collaboration_check(r, caller, collaborator_username, None)
    \/ \E r \in SessionSlots : create_collaboration_commit(r)

SpecCollabSessions == Init /\ [][NextCollabSessions]_vars

\* The collaboration ledger alone.
NextCollab ==
    \/ \E caller \in UserIds, collaborator_username \in RequestUsernames,
          project_name \in ProjectNames :
           create_collaboration(caller, collaborator_username, project_name)
    \/ \E caller \in UserIds : get_my_collaborations(caller)

InitCollab ==
    /\ users = Population
    /\ EmptyStore

SpecCollab == InitCollab /\ [][NextCollab]_vars

\* The profile component alone.
NextProfile ==
    \E caller \in UserIds, username \in RequestUsernames \ {"carol"},
       data \in Payloads :
        update_profile(caller, username, data)

SpecProfile == Init /\ [][NextProfile]_vars

\* One owner editing its own profile, or trying another name.
NextProfileOwner ==
    \E caller \in {i \in UserIds : users[i].username = "alice"},
       username \in {"alice", "bob", "ghost"}, data \in OwnerPayloads :
        update_profile(caller, username, data)

SpecProfileOwner == Init /\ [][NextProfileOwner]_vars

\* The tag lists' round trip: creations that vary one list at a time, then
\* reads of the stored project.
TagInputs ==
    {<<l, OneTag>> : l \in TagLists} \cup {<<OneTag, l>> : l \in TagLists}

NextTags ==
    \/ \E caller \in UserIds, lists \in TagInputs :
           projects = <<>> /\ create_project(caller, lists[1], lists[2], Absent)
    \/ \E project_id \in ProjectIds : get_project(project_id)

SpecTags == Init /\ [][NextTags]_vars

\* ------------------------------------ properties: project lifecycle
\* A status-update step by the project's poster.
OwnerUpdate(caller, project_id, new_status) ==
    /\ project_id \in DOMAIN projects
    /\ projects[project_id].poster_id = users[caller].id
    /\ update_project_status(caller, project_id, new_status)

\* A status-update step on an existing project by someone else.
NonOwnerUpdate(caller, project_id, new_status) ==
    /\ project_id \in DOMAIN projects
    /\ projects[project_id].poster_id # users[caller].id
    /\ update_project_status(caller, project_id, new_status)

OwnerDelete(caller, project_id) ==
    /\ project_id \in DOMAIN projects
    /\ projects[project_id].poster_id = users[caller].id
    /\ delete_project(caller, project_id)

NonOwnerDelete(caller, project_id) ==
    /\ project_id \in DOMAIN projects
    /\ projects[project_id].poster_id # users[caller].id
    /\ delete_project(caller, project_id)

LegalPairs == {<<"open", "in_progress">>, <<"in_progress", "completed">>}

\* C1: an owner's status update with a known status succeeds only for
\* (open, in_progress) and (in_progress, completed); every other pair of
\* known statuses is rejected with 400 and the projects table is unchanged.
C1_OnlyLegalTransitions ==
    [][\A caller \in UserIds, project_id \in ProjectIds,
          new_status \in ProjectStatusMembers :
          OwnerUpdate(caller, project_id, new_status) =>
              LET pair == <<projects[project_id].status, new_status>>
              IN /\ response'.status_code = 200 => pair \in LegalPairs
                 /\ pair \in LegalPairs =>
                        projects'[project_id].status = new_status
                 /\ pair \notin LegalPairs =>
                        /\ response'.status_code = 400
                        /\ projects' = projects]_vars

\* C1 witness: the owner's same-state request open -> open was rejected and
\* the project is still open.
C1_Witness ==
    /\ response.op = "update_project_status"
    /\ response.status_code = 400
    /\ response.detail = <<"Invalid status transition: ", "open", " -> ", "open">>
    /\ response.target \in DOMAIN projects
    /\ projects[response.target].poster_id = users[response.caller].id
    /\ projects[response.target].status = "open"

\* C2: a completed project stays completed and unchanged under every
\* request, and the owner's update with any known status is answered 400
\* 'Completed projects cannot be updated'.
C2_CompletedIsTerminal ==
    [][\A project_id \in ProjectIds :
          (project_id \in DOMAIN projects
           /\ projects[project_id].status = "completed") =>
              /\ project_id \in DOMAIN projects'
              /\ projects'[project_id] = projects[project_id]
              /\ \A caller \in UserIds, new_status \in ProjectStatusMembers :
                     OwnerUpdate(caller, project_id, new_status) =>
                         /\ response'.status_code = 400
                         /\ response'.detail =
                                <<"Completed projects cannot be updated">>
                         /\ projects' = projects]_vars

\* C2 witness: the owner of a completed project was just refused.
C2_Witness ==
    /\ response.op = "update_project_status"
    /\ response.detail = <<"Completed projects cannot be updated">>
    /\ response.target \in DOMAIN projects
    /\ projects[response.target].status = "completed"
    /\ projects[response.target].completed_at # None

\* C3: the owner's delete removes the project iff its status is open; on
\* in_progress or completed it is answered 400 'Only open projects can be
\* deleted' and the project persists with the same status.
C3_DeleteOnlyOpen ==
    [][\A caller \in UserIds, project_id \in ProjectIds :
          OwnerDelete(caller, project_id) =>
              IF projects[project_id].status = "open"
              THEN /\ response'.status_code = 200
                   /\ project_id \notin DOMAIN projects'
              ELSE /\ response'.status_code = 400
                   /\ response'.detail = <<"Only open projects can be deleted">>
                   /\ project_id \in DOMAIN projects'
                   /\ projects'[project_id] = projects[project_id]]_vars

\* C3 witness: the owner's delete of an in_progress project was refused and
\* the project is still there.
C3_Witness ==
    /\ response.op = "delete_project"
    /\ response.status_code = 400
    /\ response.target \in DOMAIN projects
    /\ projects[response.target].poster_id = users[response.caller].id
    /\ projects[response.target].status = "in_progress"

\* C8: a status update on an existing project by a caller who is not its
\* poster is answered 403 and leaves status and completion timestamp as
\* they were, for every current status and every requested string.
C8_NonOwnerUpdateForbidden ==
    [][\A caller \in UserIds, project_id \in ProjectIds,
          new_status \in StatusStrings :
          NonOwnerUpdate(caller, project_id, new_status) =>
              /\ response'.status_code = 403
              /\ project_id \in DOMAIN projects'
              /\ projects'[project_id].status = projects[project_id].status
              /\ projects'[project_id].completed_at =
                     projects[project_id].completed_at]_vars

\* C8 witness: a non-poster was refused on an in_progress project.
C8_Witness ==
    /\ response.op = "update_project_status"
    /\ response.status_code = 403
    /\ response.target \in DOMAIN projects
    /\ projects[response.target].poster_id # users[response.caller].id
    /\ projects[response.target].status = "in_progress"

\* C9: the owner's update with a status string that is no member of the
\* status enum is answered 400 'Invalid project status' and changes nothing.
C9_UnknownStatusRejected ==
    [][\A caller \in UserIds, project_id \in ProjectIds,
          new_status \in StatusStrings \ {"open", "in_progress", "completed"} :
          OwnerUpdate(caller, project_id, new_status) =>
              /\ response'.status_code = 400
              /\ response'.detail = <<"Invalid project status">>
              /\ projects' = projects]_vars

\* C9 witness: the owner was answered 'Invalid project status'.
C9_Witness ==
    /\ response.op = "update_project_status"
    /\ response.status_code = 400
    /\ response.detail = <<"Invalid project status">>
    /\ response.target \in DOMAIN projects
    /\ projects[response.target].poster_id = users[response.caller].id

\* C10: a delete of an existing project by a caller who is not its poster
\* is answered 403 and the project persists, whatever its status.
C10_NonOwnerDeleteForbidden ==
    [][\A caller \in UserIds, project_id \in ProjectIds :
          NonOwnerDelete(caller, project_id) =>
              /\ response'.status_code = 403
              /\ project_id \in DOMAIN projects'
              /\ projects'[project_id] = projects[project_id]]_vars

\* C10 witness: a non-poster's delete of an open project was refused.
C10_Witness ==
    /\ response.op = "delete_project"
    /\ response.status_code = 403
    /\ response.target \in DOMAIN projects
    /\ projects[response.target].poster_id # users[response.caller].id
    /\ projects[response.target].status = "open"

\* --------------------------------- properties: collaboration ledger
SamePair(l, x, y) ==
    {l.user_a_username, l.user_b_username} = {x, y}

AtMostOneLinkPerPair ==
    \A l1, l2 \in collab_links :
        SamePair(l1, l2.user_a_username, l2.user_b_username) => l1 = l2

\* C4: the ledger never holds two links for one unordered pair of usernames,
\* and a creation for a pair that already has a link, in either direction,
\* is answered 400 'Collaboration already exists' and adds no row.
C4_OneLinkPerPair ==
    /\ []AtMostOneLinkPerPair
    /\ [][\A caller \in UserIds, collaborator_username \in RequestUsernames,
             project_name \in ProjectNames :
             (/\ create_collaboration(caller, collaborator_username, project_name)
              /\ collaborator_username # users[caller].username
              /\ \E l \in collab_links :
                     SamePair(l, users[caller].username, collaborator_username))
             => /\ response'.status_code = 400
                /\ response'.detail = <<"Collaboration already exists">>
                /\ collab_links' = collab_links]_vars

\* C4 witness: a creation was refused as a duplicate of a link that the
\* other user had created (the stored link runs target -> caller).
C4_Witness ==
    /\ response.op = "create_collaboration"
    /\ response.status_code = 400
    /\ response.detail = <<"Collaboration already exists">>
    /\ \E l \in collab_links :
           /\ l.user_a_username = response.target
           /\ l.user_b_username = users[response.caller].username
    /\ Cardinality(collab_links) >= 2

\* ------------------------------------------- properties: profile
\* C5: a profile update for username u by a caller whose username is not u
\* is answered 403 and changes no user row, whatever the payload.
C5_NonOwnerProfileUpdateForbidden ==
    [][(/\ response'.op = "update_profile"
        /\ users[response'.caller].username # response'.target)
       => /\ response'.status_code = 403
          /\ users' = users]_vars

\* C5 witness: a caller was refused on another existing user's profile,
\* after some profile had been edited.
C5_Witness ==
    /\ response.op = "update_profile"
    /\ response.status_code = 403
    /\ users[response.caller].username # response.target
    /\ UsersByUsername(response.target) # {}
    /\ users # SmallPopulation

\* --------------------------------------- properties: tag round trip
NoCommaList(tags) == \A i \in 1..Len(tags) : ~HasComma(tags[i])

ProjectReturned(ops) ==
    /\ response.op \in ops
    /\ response.status_code \in {200, 201}

\* C6: for every submitted needed_archetypes list without a comma in any
\* tag, the list create_project and get_project return equals the submitted
\* list.
C6_NeededArchetypesRoundTrip ==
    (/\ ProjectReturned({"create_project", "get_project"})
     /\ NoCommaList(submitted[response.target].needed_archetypes))
    => response.needed_archetypes = submitted[response.target].needed_archetypes

\* C6, what the code does keep: every non-empty list without a comma.
C6_NonEmptyRoundTrip ==
    (/\ ProjectReturned({"create_project", "get_project"})
     /\ NoCommaList(submitted[response.target].needed_archetypes)
     /\ submitted[response.target].needed_archetypes # <<>>)
    => response.needed_archetypes = submitted[response.target].needed_archetypes

\* C7: for every submitted coalition_tags list without a comma in any tag,
\* the list a read of the project returns equals the submitted list.
C7_CoalitionTagsRoundTrip ==
    (/\ ProjectReturned({"get_project"})
     /\ NoCommaList(submitted[response.target].coalition_tags))
    => response.coalition_tags = submitted[response.target].coalition_tags

\* C7, what the code does keep: every list without a comma but [""].
C7_ExceptSingleEmptyTag ==
    (/\ ProjectReturned({"get_project"})
     /\ NoCommaList(submitted[response.target].coalition_tags)
     /\ submitted[response.target].coalition_tags # << <<>> >>)
    => response.coalition_tags = submitted[response.target].coalition_tags

\* C11: a created project starts open with the creating caller as poster,
\* and no request of any caller ever changes a project's poster_id.
C11_PosterImmutable ==
    [][/\ next_project_id' # next_project_id =>
              LET id == next_project_id
              IN /\ id \in DOMAIN projects'
                 /\ projects'[id].status = "open"
                 /\ projects'[id].poster_id = users[response'.caller].id
                 /\ response'.op = "create_project"
                 /\ response'.status = "open"
       /\ \A project_id \in DOMAIN projects \cap DOMAIN projects' :
              projects'[project_id].poster_id = projects[project_id].poster_id
      ]_vars

\* C11 witness: a project that went through a successful status update is
\* still its creator's, after a second project was created by someone else.
C11_Witness ==
    /\ response.op = "update_project_status"
    /\ response.status_code = 200
    /\ projects[response.target].poster_id = users[response.caller].id
    /\ \E other \in DOMAIN projects :
           projects[other].poster_id # projects[response.target].poster_id

\* C12: a project has a completion timestamp exactly when its status is
\* completed; the step in_progress -> completed sets it and no other step
\* changes it.
C12_StampedIffCompleted ==
    /\ [](\A project_id \in DOMAIN projects :
              projects[project_id].completed_at # None
                  <=> projects[project_id].status = "completed")
    /\ [][\A project_id \in DOMAIN projects \cap DOMAIN projects' :
              projects'[project_id].completed_at # projects[project_id].completed_at
                  => /\ projects[project_id].status = "in_progress"
                     /\ projects'[project_id].status = "completed"]_vars

\* C12 witness: one project is completed and stamped while another is
\* in_progress and unstamped.
C12_Witness ==
    \E p, q \in DOMAIN projects :
        /\ projects[p].status = "completed"
        /\ projects[p].completed_at = "utcnow"
        /\ projects[q].status = "in_progress"
        /\ projects[q].completed_at = None

\* ------------------------- properties: collaboration ledger, continued
\* C13: a successful create_collaboration by caller c naming user t adds
\* exactly one link, with user_a = c, user_b = t, user_a_confirmed true,
\* user_b_confirmed false and status pending, and changes no other link.
C13_NewLinkShape ==
    [][\A caller \in UserIds, collaborator_username \in RequestUsernames,
          project_name \in ProjectNames :
          (/\ create_collaboration(caller, collaborator_username, project_name)
           /\ response'.status_code = 201)
          => /\ collab_links \subseteq collab_links'
             /\ Cardinality(collab_links' \ collab_links) = 1
             /\ \A l \in collab_links' \ collab_links :
                    /\ l.user_a_username = users[caller].username
                    /\ l.user_b_username = collaborator_username
                    /\ l.user_a_confirmed = 1
                    /\ l.user_b_confirmed = 0
                    /\ l.status = "pending"
                    /\ l.project_name = project_name
                    /\ collaborator_username # users[caller].username
                    /\ UsersByUsername(collaborator_username) # {}
                    /\ ~\E o \in collab_links :
                           SamePair(o, l.user_a_username, l.user_b_username)
      ]_vars

\* C13 witness: a second link was just created and the first is still there.
C13_Witness ==
    /\ response.op = "create_collaboration"
    /\ response.status_code = 201
    /\ Cardinality(collab_links) = 2
    /\ \E l \in collab_links :
           /\ l.id = 2
           /\ l.user_a_username = users[response.caller].username
           /\ l.user_b_username = response.target

LinkWellFormed(l) ==
    /\ l.user_a_username # l.user_b_username
    /\ UsersByUsername(l.user_a_username) # {}
    /\ UsersByUsername(l.user_b_username) # {}

\* C14: create_collaboration changes nothing and answers 404 'User not
\* found' when the named username matches no user, and 400 'Cannot
\* collaborate with yourself' when it is the caller's own; so no link joins
\* a user to itself and no link names a user that does not exist.
C14_NoSelfNoGhostLinks ==
    /\ [](\A l \in collab_links : LinkWellFormed(l))
    /\ [][\A caller \in UserIds, collaborator_username \in RequestUsernames,
             project_name \in ProjectNames :
             create_collaboration(caller, collaborator_username, project_name)
             => /\ UsersByUsername(collaborator_username) = {} =>
                       /\ response'.status_code = 404
                       /\ response'.detail = <<"User not found">>
                       /\ collab_links' = collab_links
                /\ collaborator_username = users[caller].username =>
                       /\ response'.status_code = 400
                       /\ response'.detail = <<"Cannot collaborate with yourself">>
                       /\ collab_links' = collab_links]_vars

\* C14 witness: a caller that already has a link named itself and was refused.
C14_Witness ==
    /\ response.op = "create_collaboration"
    /\ response.status_code = 400
    /\ response.detail = <<"Cannot collaborate with yourself">>
    /\ response.target = users[response.caller].username
    /\ \E l \in collab_links : l.user_a_username = response.target

Listed == {response.links[i] : i \in 1..Len(response.links)}

\* C18: get_my_collaborations returns exactly the links in which the caller
\* is user_a or user_b, each once, newest first.
C18_ListingBothSides ==
    response.op = "get_my_collaborations" =>
        LET u == users[response.caller].username
        IN /\ Listed = {l \in collab_links :
                           l.user_a_username = u \/ l.user_b_username = u}
           /\ Cardinality(Listed) = Len(response.links)
           /\ \A i, j \in 1..Len(response.links) :
                  i < j => response.links[i].created_at
                               > response.links[j].created_at

\* C18 witness: the listing of a user holds a link another user created
\* naming it, ahead of an older link it created itself, while the ledger
\* holds a third link that is not listed.
C18_Witness ==
    /\ response.op = "get_my_collaborations"
    /\ Len(response.links) = 2
    /\ response.links[1].user_b_username = users[response.caller].username
    /\ response.links[2].user_a_username = users[response.caller].username
    /\ Cardinality(collab_links) = 3

\* ------------------------------------- properties: profile, continued
\* C16: a profile update by the owner succeeds and writes exactly the keys
\* of the payload that are among full_name, bio, preferred_themes,
\* portfolio_links, next_build and affiliations; every other column of the
\* row, email, username, password, archetype_id and tier_id included, and
\* every other row keep their values.
C16_OwnerUpdateAllowListOnly ==
    [][\A caller \in {response'.caller} \cap UserIds,
          username \in {response'.target} \cap RequestUsernames,
          data \in OwnerPayloads :
          (/\ users[caller].username = username
           /\ update_profile(caller, username, data))
          => LET written == DOMAIN data \cap
                               {"full_name", "bio", "preferred_themes",
                                "portfolio_links", "next_build", "affiliations"}
             IN /\ response'.status_code = 200
                /\ \A i \in UserIds \ {caller} : users'[i] = users[i]
                /\ \A f \in DOMAIN users[caller] :
                       users'[caller][f] =
                           IF f \in written THEN data[f] ELSE users[caller][f]
      ]_vars

\* C16 witness: an owner's update was accepted, two of its allow-listed
\* fields are written, the others are as they were created.
C16_Witness ==
    /\ response.op = "update_profile"
    /\ response.status_code = 200
    /\ LET user == users[response.caller]
       IN /\ user.username = response.target
          /\ user.bio = "new"
          /\ user.next_build = "new"
          /\ user.full_name = None
          /\ user.email = SmallPopulation[response.caller].email
          /\ user.password = "hash"

\* ------------------------------------------- properties: participants
\* C20: deleting a project removes every participant row that references
\* it, and only those; in every reachable state the project_id of each
\* participant row is the id of an existing project.
C20_ParticipantsFollowProject ==
    /\ [](\A pp \in project_participants : pp.project_id \in DOMAIN projects)
    /\ [][\A project_id \in DOMAIN projects \ DOMAIN projects' :
              project_participants' =
                  {pp \in project_participants : pp.project_id # project_id}
         ]_vars

\* C20 witness: a project that had a participant was deleted, the
\* participant of the other project is still there.
C20_Witness ==
    /\ response.op = "delete_project"
    /\ response.status_code = 200
    /\ response.target \notin DOMAIN projects
    /\ next_participant_id = 3
    /\ Cardinality(project_participants) = 1
    /\ \A pp \in project_participants : pp.project_id \in DOMAIN projects

\* ------------------------------------------------ properties: seeding
RowsNamed(rows, name) == {r \in rows : r.name = name}

OnePerSeededName(rows, seeds) ==
    \A i \in 1..Len(seeds) : Cardinality(RowsNamed(rows, seeds[i].name)) = 1

HasRun == response.op = "seed_reference_data"

\* C19: from any starting store, after seed_reference_data has run there is
\* exactly one archetype row, one tier row and one coalition row per seeded
\* name, and a further run adds and modifies nothing.
C19_SeedingIdempotent ==
    /\ [](HasRun => /\ OnePerSeededName(reference.archetypes, SeedArchetypes)
                    /\ OnePerSeededName(reference.tiers, SeedTiers)
                    /\ OnePerSeededName(reference.coalitions, SeedCoalitions))
    /\ [][HasRun => reference' = reference]_vars

\* The part of C19 the code keeps: one archetype row and one tier row per
\* seeded name, at least one coalition row per seeded name, rows that were
\* there before are untouched, and a further run changes nothing.
C19_SeedingAddsMissingOnly ==
    /\ [](HasRun => /\ OnePerSeededName(reference.archetypes, SeedArchetypes)
                    /\ OnePerSeededName(reference.tiers, SeedTiers)
                    /\ \A i \in 1..Len(SeedCoalitions) :
                           RowsNamed(reference.coalitions,
                                     SeedCoalitions[i].name) # {})
    /\ [][/\ reference.archetypes \subseteq reference'.archetypes
          /\ reference.tiers \subseteq reference'.tiers
          /\ reference.coalitions \subseteq reference'.coalitions
          /\ HasRun => reference' = reference]_vars

\* A store with two coalition rows of one seeded name, after a run.
C19_DuplicatesSurvive ==
    /\ HasRun
    /\ \E i \in 1..Len(SeedCoalitions) :
           Cardinality(RowsNamed(reference.coalitions,
                                 SeedCoalitions[i].name)) = 2

\* ----------------------------------------------- properties: discover
\* text contains sub, letter case aside.
ContainsFolded(text, sub) ==
    \E i \in 0..(Len(text) - Len(sub)) :
        \A k \in 1..Len(sub) : Lower(text)[i + k] = Lower(sub)[k]

\* The column passes an optional substring filter.
SubstringPasses(column, parameter) ==
    \A sub \in parameter : \E text \in column : ContainsFolded(text, sub)

DiscoverReturned == response.op = "discover_projects"

ReturnedIds == {response.projects[i].id : i \in 1..Len(response.projects)}

OnlyOpenReturned ==
    \A i \in 1..Len(response.projects) :
        /\ response.projects[i].status = "open"
        /\ response.projects[i].id \in DOMAIN projects
        /\ projects[response.projects[i].id].status = "open"

\* C17: every project discover_projects returns has status open, and every
\* open project whose region, needed_archetypes and coalition_tags contain
\* the supplied filters as substrings, letter case aside, is returned.
C17_DiscoverOpenAndComplete ==
    DiscoverReturned =>
        /\ OnlyOpenReturned
        /\ \A id \in DOMAIN projects :
               (/\ projects[id].status = "open"
                /\ SubstringPasses(projects[id].region, response.region)
                /\ SubstringPasses(Some(projects[id].needed_archetypes),
                                   response.archetype)
                /\ SubstringPasses(Some(projects[id].coalition_tags),
                                   response.coalition))
               => id \in ReturnedIds

HasLikeEscape(parameter) ==
    \E value \in parameter : \E k \in 1..Len(value) : value[k] = "\\"

\* The part of C17 the code keeps: only open projects are returned, newest
\* first, and none that passes the substring filters is missing when no
\* filter holds a backslash.
C17_CompleteWithoutEscape ==
    DiscoverReturned =>
        /\ OnlyOpenReturned
        /\ \A i, j \in 1..Len(response.projects) :
               i < j => response.projects[i].id > response.projects[j].id
        /\ ~(\/ HasLikeEscape(response.region)
             \/ HasLikeEscape(response.archetype)
             \/ HasLikeEscape(response.coalition))
           => \A id \in DOMAIN projects :
                  (/\ projects[id].status = "open"
                   /\ SubstringPasses(projects[id].region, response.region)
                   /\ SubstringPasses(Some(projects[id].needed_archetypes),
                                      response.archetype)
                   /\ SubstringPasses(Some(projects[id].coalition_tags),
                                      response.coalition))
                  => id \in ReturnedIds

\* An open project whose needed_archetypes holds a backslash was searched
\* for with that backslash and not returned.
C17_BackslashMissed ==
    /\ DiscoverReturned
    /\ response.archetype = Some(<<"\\">>)
    /\ response.region = Absent
    /\ response.coalition = Absent
    /\ \E id \in DOMAIN projects :
           /\ projects[id].status = "open"
           /\ ContainsFolded(projects[id].needed_archetypes, <<"\\">>)
           /\ id \notin ReturnedIds

\* Discovery left a started project out and returned the open one.
C17_StartedLeftOut ==
    /\ DiscoverReturned
    /\ response.archetype = Some(<<"a">>)
    /\ Len(response.projects) = 1
    /\ \E id \in DOMAIN projects :
           /\ projects[id].status = "in_progress"
           /\ ContainsFolded(projects[id].needed_archetypes, <<"a">>)

\* ------------------------------------- properties: authentication gate
EmailMatches(token) ==
    {i \in UserIds : "sub" \in DOMAIN token.claims
                     /\ users[i].email = token.claims["sub"]}

IdMatches(token) ==
    {i \in UserIds : "sub" \in DOMAIN token.claims
                     /\ ToString(users[i].id) = token.claims["sub"]}

\* A request step answers 401 and changes nothing when the token is to be
\* rejected, and runs a handler only as a user the subject matches.
GateContract(request, rejected, matches) ==
    /\ ~(/\ rejected
         /\ ~(/\ response'.op = "get_current_user"
              /\ response'.status_code = 401
              /\ StoresUnchanged)
         /\ request)
    /\ ~(/\ response'.status_code # 401
         /\ response'.caller \notin matches
         /\ request)

C24_FirstFailingCheck ==
    [][\A caller \in UserIds, project_id \in ProjectIds, s \in StatusStrings :
          update_project_status(caller, project_id, s) =>
              IF project_id \notin DOMAIN projects
              THEN /\ response'.status_code = 404
                   /\ response'.detail = <<"Project not found">>
              ELSE IF projects[project_id].poster_id # users[caller].id
              THEN /\ response'.status_code = 403
                   /\ response'.detail =
                          <<"You are not allowed to update this project">>
              ELSE IF s \notin {"open", "in_progress", "completed"}
              THEN /\ response'.status_code = 400
                   /\ response'.detail = <<"Invalid project status">>
              ELSE IF projects[project_id].status = "completed"
              THEN /\ response'.status_code = 400
                   /\ response'.detail =
                          <<"Completed projects cannot be updated">>
              ELSE IF <<projects[project_id].status, s>> \notin
                          {<<"open", "in_progress">>,
                           <<"in_progress", "completed">>}
              THEN /\ response'.status_code = 400
                   /\ response'.detail[1] = "Invalid status transition: "
              ELSE response'.status_code = 200
      ]_vars

\* C24 witness: the owner of a completed project sent an unknown status
\* string and was told the status is invalid.
C24_Witness ==
    /\ response.op = "update_project_status"
    /\ response.status_code = 400
    /\ response.detail = <<"Invalid project status">>
    /\ response.target \in DOMAIN projects
    /\ projects[response.target].status = "completed"
    /\ projects[response.target].poster_id = users[response.caller].id

\* -------------------------------- properties: interleaved requests
StatusRank == [open |-> 1, in_progress |-> 2, completed |-> 3]

\* C21: under any interleaving of status updates that read, validate and
\* commit in separate steps, the stored status of a project never moves to
\* an earlier one, and a completed project stays completed.
C21_NoRegressionInterleaved ==
    [][\A project_id \in DOMAIN projects \cap DOMAIN projects' :
           StatusRank[projects'[project_id].status]
               >= StatusRank[projects[project_id].status]]_vars

\* A completed project was set back to in_progress by an update that had
\* read it open; its completion timestamp is still there.
C21_CompletedSetBack ==
    /\ response.op = "update_project_status"
    /\ response.status_code = 200
    /\ response.status = "in_progress"
    /\ projects[response.target].status = "in_progress"
    /\ projects[response.target].completed_at # None

\* What the code keeps under interleaving: every committed update is the
\* step the flow allows from the status its request read.
C21_LegalFromStatusRead ==
    [][\A r \in SessionSlots :
           (/\ sessions[r].pc = "validated"
            /\ sessions[r].op = "update_project_status"
            /\ sessions'[r].pc = "idle"
            /\ response'.status_code = 200)
           => /\ <<sessions[r].seen, sessions[r].argument>> \in LegalPairs
              /\ projects'[sessions[r].target].status = sessions[r].argument
      ]_vars

\* C23: with a delete and a status update of the owner running together,
\* a project is never removed while its committed status is in_progress or
\* completed.
C23_OnlyOpenRemoved ==
    [][\A project_id \in DOMAIN projects \ DOMAIN projects' :
           projects[project_id].status = "open"]_vars

\* A delete that read the project open is about to commit, after the
\* update to in_progress has committed.
C23_DeleteAfterStart ==
    \E r \in SessionSlots :
        /\ sessions[r].pc = "validated"
        /\ sessions[r].op = "delete_project"
        /\ sessions[r].seen = "open"
        /\ sessions[r].target \in DOMAIN projects
        /\ projects[sessions[r].target].status = "in_progress"

AllSessionsIdle == \A r \in SessionSlots : sessions[r].pc = "idle"

\* C22: when create_collaboration requests for one unordered pair of users
\* run together, the existence check and the insert being separate steps,
\* at most one link for the pair exists after they have finished.
C22_OneLinkPerPairInterleaved ==
    AllSessionsIdle =>
        \A l1, l2 \in collab_links :
            {l1.user_a_username, l1.user_b_username}
                = {l2.user_a_username, l2.user_b_username}
            => l1 = l2

\* Both requests have finished and the ledger holds a link in each
\* direction for one pair.
C22_TwoLinksOnePair ==
    /\ AllSessionsIdle
    /\ response.op = "create_collaboration"
    /\ response.status_code = 201
    /\ \E l1, l2 \in collab_links :
           /\ l1.user_a_username = l2.user_b_username
           /\ l1.user_b_username = l2.user_a_username

\* What the code keeps under interleaving: a pair never has more links
\* than there were requests in flight at once, every link joins two
\* different existing users, and a check that finds a link refuses.
C22_DuplicatesOnlyFromOverlap ==
    /\ [](\A l \in collab_links :
              /\ LinkWellFormed(l)
              /\ Cardinality({o \in collab_links :
                                 SamePair(o, l.user_a_username,
                                          l.user_b_username)}) <= MaxSessions)
    /\ [][\A r \in SessionSlots :
              (sessions[r].pc = "idle" /\ sessions'[r].pc = "validated")
              => ~\E l \in collab_links :
                     SamePair(l, users[sessions'[r].caller].username,
                              sessions'[r].target)]_vars

====
